---- MODULE Spec2Model ----
(***************************************************************************)
(* Model of src/predictedtrack.py: the dead-reckoning propagation          *)
(* (read_csv_and_predict, calculate_new_coordinates), the two exporters    *)
(* (write_to_csv, write_to_kml) and the Run handler of main.               *)
(*                                                                         *)
(* Numbers are fixed-point integers.  A groundspeed in knots times         *)
(* 0.514444 is kept as an integer scaled by 10^6; dividing by 1000 to get  *)
(* kilometres only moves the scale.  The geodesic destination of geopy is  *)
(* abstracted to a displacement on an integer grid.                        *)
(***************************************************************************)
EXTENDS Integers, Sequences, FiniteSets, TLC

\* Largest number of data rows of an uploaded CSV file.
MaxRows == 2

\* The sessions (script runs) of the streamlit host; Spec runs session 1 only.
Sessions == {1, 2}

(***************************************************************************)
(* Values.  A value is a finite number, the float NaN, or a str.           *)
(***************************************************************************)
Num(n) == [kind |-> "num", v |-> n]
NaN == [kind |-> "nan", v |-> 0]
Str == [kind |-> "str", v |-> 0]
Empty == [kind |-> "empty", v |-> 0]

IsNum(x) == x.kind = "num"
IsNaN(x) == x.kind = "nan"
IsStr(x) == x.kind = "str"

(***************************************************************************)
(* The uploaded file: a header of column names and rows of cell texts.     *)
(***************************************************************************)
\* Cell texts of the required columns: two numbers, a missing-value marker
\* and a text that is no number.
Tokens == {"0", "90", "N/A", "abc"}

\* pandas' default missing-value markers among the cell texts.
NaTokens == {"N/A"}

\* The cell texts that parse as a number, and the number.
NumTokens == {"0", "90"}

TokenValue(tok) == IF tok = "90" THEN 90 ELSE 0

\* The column headers that are uploaded: both required columns in lower and
\* in mixed case, in another order with an extra column, and with one or
\* both required columns absent.
Headers ==
    { <<"groundspeed", "heading">>,
      <<"GroundSpeed", "HEADING">>,
      <<"heading", "alt", "groundspeed">>,
      <<"groundspeed", "alt">>,
      <<"Heading">>,
      <<"alt">> }

\* str.lower() on a column name.
Lower(name) ==
    CASE name = "GroundSpeed" -> "groundspeed"
      [] name = "HEADING" -> "heading"
      [] name = "Heading" -> "heading"
      [] OTHER -> name

\* The cell texts a column of that name holds in the uploaded files.
CellsOf(name) == IF Lower(name) \in {"groundspeed", "heading"} THEN Tokens ELSE {"0"}

RowsOf(header) ==
    { r \in [1..Len(header) -> Tokens] : \A c \in 1..Len(header) : r[c] \in CellsOf(header[c]) }

SeqsUpTo(S, n) == UNION { [1..k -> S] : k \in 0..n }

CsvFiles ==
    UNION { { [header |-> h, rows |-> rs] : rs \in SeqsUpTo(RowsOf(h), MaxRows) } : h \in Headers }

\* No file chosen in the uploader.
NoFile == [header |-> <<>>, rows |-> <<>>]

(***************************************************************************)
(* pd.read_csv: a column whose cells are all numbers or missing-value      *)
(* markers is a float column (markers become NaN); any other column is an  *)
(* object column whose cells stay str, markers excepted.                   *)
(***************************************************************************)
ColumnIsNumeric(file, c) ==
    \A i \in 1..Len(file.rows) : file.rows[i][c] \in NumTokens \cup NaTokens

ParseCell(file, i, c) ==
    LET tok == file.rows[i][c] IN
    IF tok \in NaTokens THEN NaN
    ELSE IF ColumnIsNumeric(file, c) THEN Num(TokenValue(tok))
    ELSE Str

pd_read_csv(file) ==
    [columns |-> file.header,
     rows |-> [i \in 1..Len(file.rows) |-> [c \in 1..Len(file.header) |-> ParseCell(file, i, c)]]]

(***************************************************************************)
(* calculate_new_coordinates                                               *)
(***************************************************************************)
\* 0.514444, knots to metres per second, scaled by 10^6.
KnotsToMps == 514444

Ok(lat, lon) == [ok |-> TRUE, lat |-> lat, lon |-> lon, type |-> "none"]
Raised(type) == [ok |-> FALSE, lat |-> NaN, lon |-> NaN, type |-> type]

\* geopy's destination point, abstracted to a grid: the distance is laid
\* along the latitude axis for bearing 0 and 180 and along the longitude
\* axis for bearing 90 and 270.
Destination(lat, lon, bearing, dist) ==
    CASE bearing = 0 -> Ok(Num(lat + dist), Num(lon))
      [] bearing = 90 -> Ok(Num(lat), Num(lon + dist))
      [] bearing = 180 -> Ok(Num(lat - dist), Num(lon))
      [] OTHER -> Ok(Num(lat), Num(lon - dist))

\* strict: the installed geopy rejects a point with a non-finite coordinate
\* (ValueError); otherwise NaN runs through the arithmetic.
calculate_new_coordinates(lat, lon, bearing, ground_speed_knots, interval, strict) ==
    IF IsStr(ground_speed_knots) THEN Raised("TypeError")
    ELSE IF strict /\ (IsNaN(lat) \/ IsNaN(lon)) THEN Raised("ValueError")
    ELSE IF IsStr(bearing) THEN Raised("TypeError")
    ELSE IF IsNaN(lat) \/ IsNaN(lon) \/ IsNaN(bearing) \/ IsNaN(ground_speed_knots)
         THEN IF strict THEN Raised("ValueError") ELSE Ok(NaN, NaN)
    ELSE Destination(lat.v, lon.v, bearing.v, ground_speed_knots.v * KnotsToMps * interval)

(***************************************************************************)
(* State                                                                   *)
(***************************************************************************)
VARIABLES
    uploaded_file,          \* per session: the uploaded CSV file or NoFile
    initial_lat,            \* per session: st.number_input values
    initial_lon,
    time_interval_seconds,
    geopy_strict,           \* whether the installed geopy validates points
    pc,                     \* per session: position in the Run handler
    df,                     \* per session: the data frame of read_csv_and_predict
    predicted_data,         \* per session: list of {latitude, longitude, name}
    current,                \* per session: <<current_lat, current_lon>>
    index,                  \* per session: 0-based index of the next row
    calls,                  \* per session: calls of calculate_new_coordinates
    exc,                    \* per session: the exception in flight
    errors,                 \* per session: st.error messages shown
    escaped,                \* per session: the exception that left main uncaught
    downloads,              \* per session: contents given to st.download_button
    shown,                  \* per session: st.success / map output
    files,                  \* the working directory: output_csv and output_kml
    wrote                   \* per session: the files the run has written

inputs == <<uploaded_file, initial_lat, initial_lon, time_interval_seconds, geopy_strict>>
locals == <<df, predicted_data, current, index, calls>>
ui == <<errors, escaped, downloads, shown>>
vars == <<inputs, pc, locals, exc, ui, files, wrote>>

NoExc == [type |-> "none", args |-> <<>>]
Exception(type, args) == [type |-> type, args |-> args]

Absent == [exists |-> FALSE, rows |-> <<>>]
NoFrame == [columns |-> <<>>, rows |-> <<>>]

\* The initial positions and time intervals entered.
Positions == { <<Num(0), Num(0)>>, <<Num(7), Num(3)>> }
Intervals == {1, 2}

TypeOK ==
    /\ pc \in [Sessions -> {"idle", "read", "loop", "write_csv", "write_kml", "success",
                            "dl_csv", "dl_kml", "plot", "except", "done"}]
    /\ index \in [Sessions -> 0..MaxRows]
    /\ calls \in [Sessions -> 0..MaxRows]
    /\ \A s \in Sessions : Len(predicted_data[s]) <= MaxRows + 1

(***************************************************************************)
(* read_csv_and_predict                                                    *)
(***************************************************************************)
required_columns == <<"groundspeed", "heading">>

\* df.columns.str.lower()
LowerColumns(columns) == [c \in 1..Len(columns) |-> Lower(columns[c])]

HasColumn(columns, col) == \E c \in 1..Len(columns) : columns[c] = col

\* A variant that reports only the first absent column.
missing_columns_first(columns) ==
    LET all == SelectSeq(required_columns, LAMBDA col : ~HasColumn(columns, col))
    IN IF all = <<>> THEN <<>> ELSE <<all[1]>>

\* [col for col in required_columns if col not in df.columns]
missing_columns(columns) ==
    SelectSeq(required_columns, LAMBDA col : ~HasColumn(columns, col))

\* row[col]
Cell(frame, i, col) ==
    frame.rows[i][CHOOSE c \in 1..Len(frame.columns) : frame.columns[c] = col]

\* A variant with the two coordinates exchanged.
InitialPointSwapped(lat, lon) == [latitude |-> lon, longitude |-> lat, name |-> 1]

\* The first element of predicted_data.
InitialPoint(lat, lon) == [latitude |-> lat, longitude |-> lon, name |-> 1]

\* step_number = index + 1, index being the 0-based row label.
StepNumber(i) == i + 1

\* A variant that projects every step from the initial position.
StartOfInitial(s) == <<initial_lat[s], initial_lon[s]>>

\* The position the next step starts from.
StartOf(s) == current[s]

\* A variant that stops one row early.
HasNextRowShort(s) == index[s] + 1 < Len(df[s].rows)

\* for index, row in df.iterrows(): the loop has another row.
HasNextRow(s) == index[s] < Len(df[s].rows)

\* Lines 39-59: read the file, lower-case the column names, check the
\* required columns, start the list with the initial point.
ReadCsv(s) ==
    /\ pc[s] = "read"
    /\ LET frame == pd_read_csv(uploaded_file[s])
           lowered == [frame EXCEPT !.columns = LowerColumns(frame.columns)]
           missing == missing_columns(lowered.columns)
       IN IF missing # <<>>
          THEN /\ exc' = [exc EXCEPT ![s] = Exception("ValueError", missing)]
               /\ pc' = [pc EXCEPT ![s] = "except"]
               /\ df' = [df EXCEPT ![s] = lowered]
               /\ UNCHANGED <<predicted_data, current, index, calls>>
          ELSE /\ df' = [df EXCEPT ![s] = lowered]
               /\ current' = [current EXCEPT ![s] = <<initial_lat[s], initial_lon[s]>>]
               /\ predicted_data' = [predicted_data EXCEPT
                      ![s] = <<InitialPoint(initial_lat[s], initial_lon[s])>>]
               /\ index' = [index EXCEPT ![s] = 0]
               /\ pc' = [pc EXCEPT ![s] = "loop"]
               /\ UNCHANGED <<calls, exc>>
    /\ UNCHANGED <<inputs, ui, files, wrote>>

\* Lines 62-78: one iteration of the loop over the rows.
PredictRow(s) ==
    /\ pc[s] = "loop"
    /\ HasNextRow(s)
    /\ LET i == index[s]
           ground_speed_knots == Cell(df[s], i + 1, "groundspeed")
           bearing == Cell(df[s], i + 1, "heading")
           start == StartOf(s)
           new == calculate_new_coordinates(start[1], start[2], bearing, ground_speed_knots,
                                            time_interval_seconds[s], geopy_strict)
       IN /\ calls' = [calls EXCEPT ![s] = @ + 1]
          /\ IF new.ok
             THEN /\ predicted_data' = [predicted_data EXCEPT ![s] =
                         Append(@, [latitude |-> new.lat, longitude |-> new.lon,
                                    name |-> StepNumber(i)])]
                  /\ current' = [current EXCEPT ![s] = <<new.lat, new.lon>>]
                  /\ index' = [index EXCEPT ![s] = i + 1]
                  /\ UNCHANGED <<pc, exc>>
             ELSE /\ exc' = [exc EXCEPT ![s] = Exception(new.type, <<>>)]
                  /\ pc' = [pc EXCEPT ![s] = "except"]
                  /\ UNCHANGED <<predicted_data, current, index>>
    /\ UNCHANGED <<inputs, df, ui, files, wrote>>

\* Line 80: the rows are exhausted; the list and the final position return.
Return(s) ==
    /\ pc[s] = "loop"
    /\ ~HasNextRow(s)
    /\ pc' = [pc EXCEPT ![s] = "write_csv"]
    /\ UNCHANGED <<inputs, locals, exc, ui, files, wrote>>

(***************************************************************************)
(* Exporters                                                               *)
(***************************************************************************)
\* to_csv writes NaN as an empty field.
CsvField(x) == IF IsNaN(x) THEN Empty ELSE x

\* One table row of write_to_csv: the columns latitude, longitude, name.
CsvRow(data) == <<CsvField(data.latitude), CsvField(data.longitude), data.name>>

\* A variant that keeps the table's (latitude, longitude) order.
KmlPointLatLon(data) == [name |-> <<"Step", data.name>>, coords |-> <<data.latitude, data.longitude>>]

\* One placemark of write_to_kml: name "Step {name}", coords (longitude, latitude).
KmlPoint(data) == [name |-> <<"Step", data.name>>, coords |-> <<data.longitude, data.latitude>>]

write_to_csv(data) == [exists |-> TRUE, rows |-> [k \in 1..Len(data) |-> CsvRow(data[k])]]

write_to_kml(data) == [exists |-> TRUE, rows |-> [k \in 1..Len(data) |-> KmlPoint(data[k])]]

(***************************************************************************)
(* main: the Run handler                                                   *)
(***************************************************************************)
UploadMessage == Exception("message", <<"Please upload a CSV file to proceed.">>)

\* Lines 163-164, 201-202: the button is pressed.
Run(s) ==
    /\ pc[s] = "idle"
    /\ IF uploaded_file[s] = NoFile
       THEN /\ errors' = [errors EXCEPT ![s] = Append(@, UploadMessage)]
            /\ pc' = [pc EXCEPT ![s] = "done"]
       ELSE /\ pc' = [pc EXCEPT ![s] = "read"]
            /\ UNCHANGED errors
    /\ UNCHANGED <<inputs, locals, exc, escaped, downloads, shown, files, wrote>>

\* Lines 170-171: output_csv is written, or the write fails with OSError.
WriteCsv(s) ==
    /\ pc[s] = "write_csv"
    /\ \E io_ok \in BOOLEAN :
         IF io_ok
         THEN /\ files' = [files EXCEPT !.csv = write_to_csv(predicted_data[s])]
              /\ wrote' = [wrote EXCEPT ![s] = @ \cup {"csv"}]
              /\ pc' = [pc EXCEPT ![s] = "write_kml"]
              /\ UNCHANGED exc
         ELSE /\ exc' = [exc EXCEPT ![s] = Exception("OSError", <<>>)]
              /\ pc' = [pc EXCEPT ![s] = "except"]
              /\ UNCHANGED <<files, wrote>>
    /\ UNCHANGED <<inputs, locals, ui>>

\* Lines 174-175: output_kml is written, or the write fails with OSError.
WriteKml(s) ==
    /\ pc[s] = "write_kml"
    /\ \E io_ok \in BOOLEAN :
         IF io_ok
         THEN /\ files' = [files EXCEPT !.kml = write_to_kml(predicted_data[s])]
              /\ wrote' = [wrote EXCEPT ![s] = @ \cup {"kml"}]
              /\ pc' = [pc EXCEPT ![s] = "success"]
              /\ UNCHANGED exc
         ELSE /\ exc' = [exc EXCEPT ![s] = Exception("OSError", <<>>)]
              /\ pc' = [pc EXCEPT ![s] = "except"]
              /\ UNCHANGED <<files, wrote>>
    /\ UNCHANGED <<inputs, locals, ui>>

\* Lines 177-178: st.success and the final coordinates.
Success(s) ==
    /\ pc[s] = "success"
    /\ shown' = [shown EXCEPT ![s].success = TRUE, ![s].final = current[s]]
    /\ pc' = [pc EXCEPT ![s] = "dl_csv"]
    /\ UNCHANGED <<inputs, locals, exc, errors, escaped, downloads, files, wrote>>

\* Lines 181-186: the download button is given open(output_csv, "rb").
DownloadCsv(s) ==
    /\ pc[s] = "dl_csv"
    /\ downloads' = [downloads EXCEPT ![s].csv = files.csv]
    /\ pc' = [pc EXCEPT ![s] = "dl_kml"]
    /\ UNCHANGED <<inputs, locals, exc, errors, escaped, shown, files, wrote>>

\* Lines 189-194: the download button is given open(output_kml, "rb").
DownloadKml(s) ==
    /\ pc[s] = "dl_kml"
    /\ downloads' = [downloads EXCEPT ![s].kml = files.kml]
    /\ pc' = [pc EXCEPT ![s] = "plot"]
    /\ UNCHANGED <<inputs, locals, exc, errors, escaped, shown, files, wrote>>

\* Line 197: plot_predicted_data_on_map, one marker per point.
Plot(s) ==
    /\ pc[s] = "plot"
    /\ shown' = [shown EXCEPT ![s].map =
           [k \in 1..Len(predicted_data[s]) |->
               <<predicted_data[s][k].latitude, predicted_data[s][k].longitude>>]]
    /\ pc' = [pc EXCEPT ![s] = "done"]
    /\ UNCHANGED <<inputs, locals, exc, errors, escaped, downloads, files, wrote>>

\* except ValueError as e
Caught(e) == e.type = "ValueError"

\* Lines 199-200: a ValueError is shown with st.error; any other exception
\* leaves main uncaught.
Except(s) ==
    /\ pc[s] = "except"
    /\ IF Caught(exc[s])
       THEN /\ errors' = [errors EXCEPT ![s] = Append(@, exc[s])]
            /\ UNCHANGED escaped
       ELSE /\ escaped' = [escaped EXCEPT ![s] = exc[s]]
            /\ UNCHANGED errors
    /\ pc' = [pc EXCEPT ![s] = "done"]
    /\ UNCHANGED <<inputs, locals, exc, downloads, shown, files, wrote>>

Step(s) ==
    \/ Run(s)
    \/ ReadCsv(s)
    \/ PredictRow(s)
    \/ Return(s)
    \/ WriteCsv(s)
    \/ WriteKml(s)
    \/ Success(s)
    \/ DownloadCsv(s)
    \/ DownloadKml(s)
    \/ Plot(s)
    \/ Except(s)

(***************************************************************************)
(* Specifications                                                          *)
(***************************************************************************)
InitSession ==
    /\ pc = [s \in Sessions |-> "idle"]
    /\ df = [s \in Sessions |-> NoFrame]
    /\ predicted_data = [s \in Sessions |-> <<>>]
    /\ current = [s \in Sessions |-> <<NaN, NaN>>]
    /\ index = [s \in Sessions |-> 0]
    /\ calls = [s \in Sessions |-> 0]
    /\ exc = [s \in Sessions |-> NoExc]
    /\ errors = [s \in Sessions |-> <<>>]
    /\ escaped = [s \in Sessions |-> NoExc]
    /\ downloads = [s \in Sessions |-> [csv |-> Absent, kml |-> Absent]]
    /\ shown = [s \in Sessions |-> [success |-> FALSE, final |-> <<NaN, NaN>>, map |-> <<>>]]
    /\ files = [csv |-> Absent, kml |-> Absent]
    /\ wrote = [s \in Sessions |-> {}]

\* One session presses Run; the other stays idle.
Init ==
    /\ InitSession
    /\ \E f \in CsvFiles \cup {NoFile}, p \in Positions, t \in Intervals :
         /\ uploaded_file = [s \in Sessions |-> IF s = 1 THEN f ELSE NoFile]
         /\ initial_lat = [s \in Sessions |-> IF s = 1 THEN p[1] ELSE Num(0)]
         /\ initial_lon = [s \in Sessions |-> IF s = 1 THEN p[2] ELSE Num(0)]
         /\ time_interval_seconds = [s \in Sessions |-> IF s = 1 THEN t ELSE 1]
    /\ geopy_strict \in BOOLEAN

Next == \E s \in {1} : Step(s)

Spec == Init /\ [][Next]_vars

\* Two sessions press Run and their steps interleave.  Each session uploads
\* a file of at most one row, or one without the heading column.
MultiFiles ==
    { f \in CsvFiles : /\ f.header \in { <<"groundspeed", "heading">>, <<"groundspeed", "alt">> }
                       /\ Len(f.rows) <= 1
                       /\ (f.header = <<"groundspeed", "alt">> => f.rows = <<>>) }

InitMulti ==
    /\ InitSession
    /\ uploaded_file \in [Sessions -> MultiFiles]
    /\ initial_lat = [s \in Sessions |-> IF s = 1 THEN Num(0) ELSE Num(7)]
    /\ initial_lon = [s \in Sessions |-> IF s = 1 THEN Num(0) ELSE Num(3)]
    /\ time_interval_seconds = [s \in Sessions |-> 1]
    /\ geopy_strict \in BOOLEAN

NextMulti == \E s \in Sessions : Step(s)

SpecMulti == InitMulti /\ [][NextMulti]_vars

(***************************************************************************)
(* Vocabulary of the properties, in terms of the uploaded file             *)
(***************************************************************************)
Range(q) == { q[k] : k \in 1..Len(q) }

\* The required columns absent from the file, names compared case-insensitively.
AbsentColumns(f) ==
    { col \in {"groundspeed", "heading"} : ~\E c \in 1..Len(f.header) : Lower(f.header[c]) = col }

\* The text of row i (1-based) of the file in the column named col.
Text(f, i, col) == f.rows[i][CHOOSE c \in 1..Len(f.header) : Lower(f.header[c]) = col]

\* Row i holds a number in both required columns.
NumericRow(f, i) == Text(f, i, "groundspeed") \in NumTokens /\ Text(f, i, "heading") \in NumTokens

\* A file with both required columns and numbers in every sample.
ValidFile(f) ==
    /\ f # NoFile
    /\ AbsentColumns(f) = {}
    /\ \A i \in 1..Len(f.rows) : NumericRow(f, i)

\* A file with both required columns and a sample that is no number.
BadSampleFile(f) ==
    /\ f # NoFile
    /\ AbsentColumns(f) = {}
    /\ \E i \in 1..Len(f.rows) : ~NumericRow(f, i)

\* The 0-based index of the first row whose sample is no number.
FirstBadRow(f) ==
    (CHOOSE i \in 1..Len(f.rows) :
        ~NumericRow(f, i) /\ \A j \in 1..(i - 1) : NumericRow(f, j)) - 1

\* The sample of row i as pd.read_csv hands it to the loop.
Sample(f, i, col) ==
    pd_read_csv(f).rows[i][CHOOSE c \in 1..Len(f.header) : Lower(f.header[c]) = col]

\* read_csv_and_predict has returned its list to main.
Returned(s) ==
    \/ pc[s] \in {"write_csv", "write_kml", "success", "dl_csv", "dl_kml", "plot"}
    \/ pc[s] \in {"except", "done"} /\ (exc[s].type = "OSError" \/ shown[s].success)

\* The run of session s is over and did not succeed.
Failed(s) == pc[s] = "done" /\ (exc[s] # NoExc \/ errors[s] # <<>>)

(***************************************************************************)
(* Properties                                                              *)
(***************************************************************************)

\* C1: a file with both required columns and n numeric samples makes
\* read_csv_and_predict return, and the list it returns has n + 1 points;
\* with no data row the list is exactly the initial point.
C1_Length ==
    \A s \in Sessions :
        ValidFile(uploaded_file[s]) =>
            /\ exc[s].type \in {"none", "OSError"}
            /\ pc[s] = "done" => Returned(s)
            /\ Returned(s) =>
                 /\ Len(predicted_data[s]) = Len(uploaded_file[s].rows) + 1
                 /\ Len(uploaded_file[s].rows) = 0 =>
                      predicted_data[s] = << [latitude |-> initial_lat[s],
                                              longitude |-> initial_lon[s], name |-> 1] >>

C1_Witness ==
    \E s \in Sessions :
        /\ ValidFile(uploaded_file[s])
        /\ Len(uploaded_file[s].rows) >= 2
        /\ Returned(s)
        /\ Len(predicted_data[s]) = Len(uploaded_file[s].rows) + 1

\* C2: in a returned list the step of the k-th point is k, so the steps are
\* 1, 2, ..., n + 1 and the point of sample i (0-based) has step i + 2.
C2_StepIsPosition ==
    \A s \in Sessions :
        Returned(s) => \A k \in 1..Len(predicted_data[s]) : predicted_data[s][k].name = k

\* C3: the first element of the list is the caller's initial latitude and
\* longitude with step 1, whatever the samples are.
C3_FirstPoint ==
    \A s \in Sessions :
        (Returned(s) \/ predicted_data[s] # <<>>) =>
            predicted_data[s][1] = [latitude |-> initial_lat[s],
                                    longitude |-> initial_lon[s], name |-> 1]

C3_Witness ==
    \E s \in Sessions :
        /\ Returned(s)
        /\ Len(predicted_data[s]) >= 2
        /\ initial_lat[s] # initial_lon[s]
        /\ predicted_data[s][2].latitude # initial_lat[s]
        /\ predicted_data[s][1].latitude = initial_lat[s]

\* C4: when a required column is absent, the run fails with a ValueError
\* whose message names exactly the absent required columns, before any call
\* of calculate_new_coordinates and before any point is created.
C4_MissingColumns ==
    \A s \in Sessions :
        (uploaded_file[s] # NoFile /\ AbsentColumns(uploaded_file[s]) # {}) =>
            /\ pc[s] \in {"idle", "read", "except", "done"}
            /\ calls[s] = 0
            /\ predicted_data[s] = <<>>
            /\ pc[s] \in {"except", "done"} =>
                 /\ exc[s].type = "ValueError"
                 /\ Range(exc[s].args) = AbsentColumns(uploaded_file[s])
            /\ pc[s] = "done" => errors[s] = <<exc[s]>>

C4_Witness ==
    \E s \in Sessions :
        /\ uploaded_file[s] # NoFile
        /\ AbsentColumns(uploaded_file[s]) = {"groundspeed", "heading"}
        /\ pc[s] = "done"
        /\ Range(errors[s][1].args) = {"groundspeed", "heading"}

\* C5: when a sample is no number, the run halts at the first such row with
\* an error that names that row's index, and no list is returned.
C5_BadSample ==
    \A s \in Sessions :
        (BadSampleFile(uploaded_file[s]) /\ pc[s] = "done") =>
            /\ ~Returned(s)
            /\ exc[s] # NoExc
            /\ index[s] = FirstBadRow(uploaded_file[s])
            /\ FirstBadRow(uploaded_file[s]) \in Range(exc[s].args)

\* C6: a run that ends in failure has written no output file and has
\* offered no download.
C6_NoOutputOnFailure ==
    \A s \in Sessions :
        Failed(s) =>
            /\ wrote[s] = {}
            /\ downloads[s] = [csv |-> Absent, kml |-> Absent]

\* C7: every failure raised by validation or conversion inside a run is
\* shown by main as exactly one error message and does not leave main.
C7_FailureReported ==
    \A s \in Sessions :
        (pc[s] = "done" /\ exc[s].type \notin {"none", "OSError"}) =>
            /\ Len(errors[s]) = 1
            /\ escaped[s] = NoExc

\* C8: the list is a fold over the rows in file order: point i + 1 is
\* calculate_new_coordinates of point i, the sample of file row i and the
\* run's one time interval; the carried position is the last point; a
\* returned list has consumed every row.
C8_Fold ==
    \A s \in Sessions :
        LET f == uploaded_file[s]
            data == predicted_data[s]
        IN data # <<>> =>
            /\ \A i \in 1..(Len(data) - 1) :
                 LET r == calculate_new_coordinates(
                              data[i].latitude, data[i].longitude,
                              Sample(f, i, "heading"), Sample(f, i, "groundspeed"),
                              time_interval_seconds[s], geopy_strict)
                 IN /\ r.ok
                    /\ data[i + 1].latitude = r.lat
                    /\ data[i + 1].longitude = r.lon
            /\ current[s] = <<data[Len(data)].latitude, data[Len(data)].longitude>>
            /\ Len(data) = index[s] + 1
            /\ Returned(s) => Len(data) = Len(f.rows) + 1

C8_Witness ==
    \E s \in Sessions :
        /\ Returned(s)
        /\ Len(predicted_data[s]) >= 3
        /\ predicted_data[s][2].latitude # predicted_data[s][1].latitude
        /\ predicted_data[s][3].longitude # predicted_data[s][2].longitude
        /\ Text(uploaded_file[s], 1, "heading") # Text(uploaded_file[s], 2, "heading")

\* C9: once written, the table holds one row (latitude, longitude, name) per
\* point and the waypoint file one placemark per point, named "Step {name}"
\* with coordinates (longitude, latitude), both in list order; a NaN
\* coordinate is an empty table field.  The list is as propagation left it.
C9_Exports ==
    \A s \in Sessions :
        LET data == predicted_data[s] IN
        /\ "csv" \in wrote[s] =>
             /\ files.csv.exists
             /\ Len(files.csv.rows) = Len(data)
             /\ \A k \in 1..Len(data) :
                  /\ files.csv.rows[k][1] =
                       (IF IsNaN(data[k].latitude) THEN Empty ELSE data[k].latitude)
                  /\ files.csv.rows[k][2] =
                       (IF IsNaN(data[k].longitude) THEN Empty ELSE data[k].longitude)
                  /\ files.csv.rows[k][3] = data[k].name
        /\ "kml" \in wrote[s] =>
             /\ files.kml.exists
             /\ Len(files.kml.rows) = Len(data)
             /\ \A k \in 1..Len(data) :
                  /\ files.kml.rows[k].name = <<"Step", data[k].name>>
                  /\ files.kml.rows[k].coords = <<data[k].longitude, data[k].latitude>>
        /\ wrote[s] # {} =>
             /\ Len(data) = Len(uploaded_file[s].rows) + 1
             /\ current[s] = <<data[Len(data)].latitude, data[Len(data)].longitude>>

C9_Witness ==
    \E s \in Sessions :
        /\ wrote[s] = {"csv", "kml"}
        /\ Len(files.kml.rows) >= 3
        /\ files.kml.rows[3].coords[1] # files.kml.rows[3].coords[2]
        /\ files.csv.rows[3][1] = files.kml.rows[3].coords[2]
        /\ files.csv.rows[3][2] = files.kml.rows[3].coords[1]

\* C10: what a session offers for download is the export of its own list,
\* whatever the other session does.
C10_OwnExport ==
    \A s \in Sessions :
        /\ downloads[s].csv.exists => downloads[s].csv = write_to_csv(predicted_data[s])
        /\ downloads[s].kml.exists => downloads[s].kml = write_to_kml(predicted_data[s])

====
